---- MODULE Spec2Model ----
(***************************************************************************)
(* Model of risk_assessment.py: the on-disk cache of raw price series, the *)
(* download / read provider functions, and the pipeline                    *)
(*   unpack_to_daily_df -> get_pairwise_values -> calculate_risk_histogram *)
(* driven by calculate_risk_histogram_as_function_of_time.                 *)
(*                                                                         *)
(* Time is counted in whole calendar days (integers).  A closing price is  *)
(* an integer: 0 is a faulty non-positive entry, a positive price is a     *)
(* power of two so that log(v1 / v0) is the exact integer                  *)
(* Log2(v1) - Log2(v0) (in units of ln 2).                                 *)
(***************************************************************************)
EXTENDS Integers, Sequences, FiniteSets, TLC

VARIABLES cache, ret

vars == <<cache, ret>>

----------------------------------------------------------------------------
(* Bounds of the model *)

MaxDay == 3
MaxEntries == 3
MaxDelta == 4
FarDelta == 14
MaxSymbols == 2
MaxDeltas == 2

(* Program constants *)

DaysPerYear == 365

Symbols == {"A", "B"}
Days == 0..MaxDay
Prices == {0, 1, 2, 4}
Deltas == (0..MaxDelta) \cup {FarDelta}

----------------------------------------------------------------------------
(* JSON payloads: a dict that carries either the key 'Error Message' or    *)
(* the key 'Time Series (Daily)' whose value maps date -> {'4. close'},    *)
(* kept in key order as a sequence of entries.                             *)

Entry(d, p) == [day |-> d, close |-> p]

ErrorPayload == [kind |-> "error", ts |-> <<>>]

SeriesPayload(ts) == [kind |-> "series", ts |-> ts]

NoFile == [kind |-> "nofile", ts |-> <<>>]

HasErrorMessage(data) == data.kind = "error"

HasTimeSeries(data) == data.kind = "series"

DistinctDays(ts) == \A i, j \in 1..Len(ts) : i # j => ts[i].day # ts[j].day

RawSeriesOfLen(n) ==
    {ts \in [1..n -> [day : Days, close : Prices]] : DistinctDays(ts)}

RawSeries == UNION {RawSeriesOfLen(n) : n \in 0..MaxEntries}

----------------------------------------------------------------------------
(* Helpers on frames: a frame is a sequence of rows [day, value] in index  *)
(* order.                                                                  *)

Abs(x) == IF x < 0 THEN -x ELSE x

Reverse(s) == [i \in 1..Len(s) |-> s[Len(s) + 1 - i]]

Row(d, v) == [day |-> d, value |-> v]

DaysOf(rows) == {rows[i].day : i \in 1..Len(rows)}

MinDay(rows) == CHOOSE d \in DaysOf(rows) : \A e \in DaysOf(rows) : d <= e

MaxDayOf(rows) == CHOOSE d \in DaysOf(rows) : \A e \in DaysOf(rows) : e <= d

(* reindex(method='nearest'): the row whose day is nearest to the label;   *)
(* equal distances are broken towards the larger index value.              *)
NearestRow(rows, label) ==
    CHOOSE r \in {rows[i] : i \in 1..Len(rows)} :
        \A i \in 1..Len(rows) :
            \/ Abs(r.day - label) < Abs(rows[i].day - label)
            \/ /\ Abs(r.day - label) = Abs(rows[i].day - label)
               /\ r.day >= rows[i].day

(* .resample('1D').nearest(): one row per calendar day from the smallest   *)
(* to the largest index value, whatever the order of the rows.             *)
ResampleNearest(rows) ==
    LET first == MinDay(rows)
        last  == MaxDayOf(rows)
    IN  [i \in 1..(last - first + 1) |->
            Row(first + i - 1, NearestRow(rows, first + i - 1).value)]

----------------------------------------------------------------------------
(* unpack_to_daily_df *)

(* Variant: the test written >= 0, which keeps the faulty zeros. *)
IsValidCloseOrZero(e) == e.close >= 0

(* float(...) > 0: the test that throws out faulty zeros *)
IsValidClose(e) == e.close > 0

(* days_clean / values_clean: the entries in reversed key order, the       *)
(* non-positive ones dropped.                                              *)
CleanRows(data) ==
    LET kept == SelectSeq(Reverse(data.ts), IsValidClose)
    IN  [i \in 1..Len(kept) |-> Row(kept[i].day, kept[i].close)]

(* The exception unpack_to_daily_df ends with, "none" when it returns:     *)
(* data['Time Series (Daily)'] on a dict without that key is a KeyError;   *)
(* a frame with no rows has no DatetimeIndex and resample is a TypeError.  *)
UnpackRaises(data) ==
    IF ~HasTimeSeries(data) THEN "KeyError"
    ELSE IF Len(CleanRows(data)) = 0 THEN "TypeError"
    ELSE "none"

(* Variant: the cleaned rows returned without .resample('1D').nearest(). *)
unpack_without_resample(data) == CleanRows(data)

unpack_to_daily_df(data) == ResampleNearest(CleanRows(data))

----------------------------------------------------------------------------
(* get_pairwise_values *)

(* The missing value a left merge writes where the right frame has no row. *)
(* Every value of a frame is a price > 0, so -1 is never a value.          *)
NaN == -1

(* Variant: the index shifted forward, values_df.index + time_delta. *)
ShiftIndexForward(values_df, time_delta) ==
    [i \in 1..Len(values_df) |->
        Row(values_df[i].day + time_delta, values_df[i].value)]

(* values_df.set_index(values_df.index - time_delta) *)
ShiftIndex(values_df, time_delta) ==
    [i \in 1..Len(values_df) |->
        Row(values_df[i].day - time_delta, values_df[i].value)]

ValueAt(frame, d) ==
    IF d \in DaysOf(frame)
        THEN (CHOOSE r \in {frame[i] : i \in 1..Len(frame)} : r.day = d).value
        ELSE NaN

(* values_df.merge(offset_values_df, how='left', on='day') *)
MergeLeft(values_df, offset_values_df) ==
    [i \in 1..Len(values_df) |->
        [day                    |-> values_df[i].day,
         value_original         |-> values_df[i].value,
         value_after_time_delta |-> ValueAt(offset_values_df, values_df[i].day)]]

NotNa(row) == row.value_after_time_delta # NaN

(* Variant: the rows that could not be merged are not dropped. *)
DropNaKeepAll(pairs_df) == pairs_df

(* pairs_df.dropna(axis = 0) *)
DropNa(pairs_df) == SelectSeq(pairs_df, NotNa)

get_pairwise_values(values_df, time_delta) ==
    LET offset_values_df == ResampleNearest(ShiftIndex(values_df, time_delta))
    IN  DropNa(MergeLeft(values_df, offset_values_df))

----------------------------------------------------------------------------
(* calculate_risk_histogram *)

RECURSIVE Log2(_)
Log2(v) == IF v <= 1 THEN 0 ELSE 1 + Log2(v \div 2)

(* np.log(value_after_time_delta / value_original), in units of ln 2 *)
LogRelativeGrowth(row) == Log2(row.value_after_time_delta) - Log2(row.value_original)

(* Variant: a zero offset is annualised as if it were a year, so the      *)
(* sample is an ordinary number.                                           *)
GrowthSampleZeroGuard(row, time_delta) ==
    [kind |-> "finite",
     num  |-> LogRelativeGrowth(row) * DaysPerYear,
     den  |-> IF time_delta = 0 THEN DaysPerYear ELSE time_delta]

(* Variant: the year of num_years has 365.25 days (1461 / 4). *)
GrowthSampleJulianYear(row, time_delta) ==
    IF time_delta = 0
        THEN [kind |-> "nan", num |-> 0, den |-> 1]
        ELSE [kind |-> "finite",
              num  |-> LogRelativeGrowth(row) * 1461,
              den  |-> 4 * time_delta]

(* exp(log(relative_growth) / num_years) - 1 with                          *)
(* num_years = total_seconds / 365 / 24 / 60 / 60, that is days / 365.     *)
(* The quotient log / num_years is kept as the exact fraction num / den    *)
(* (units of ln 2): the sample is 2^(num / den) - 1.                       *)
(* Division of a float Series by 0.0 does not raise: 0/0 is nan, x/0 is    *)
(* +-inf, and exp(nan) - 1 = nan, exp(inf) - 1 = inf, exp(-inf) - 1 = -1.  *)
GrowthSample(row, time_delta) ==
    LET lg == LogRelativeGrowth(row)
    IN  IF time_delta = 0
            THEN [kind |-> IF lg = 0 THEN "nan" ELSE IF lg > 0 THEN "inf" ELSE "minus_one",
                  num  |-> 0, den |-> 1]
            ELSE [kind |-> "finite",
                  num  |-> lg * DaysPerYear,
                  den  |-> time_delta]

calculate_risk_histogram(pairs_df, time_delta) ==
    [i \in 1..Len(pairs_df) |-> GrowthSample(pairs_df[i], time_delta)]

----------------------------------------------------------------------------
(* The provider and the local copies.  cache[symbol] is the content of     *)
(* alphavantage_data_dir + symbol + '.json', NoFile when there is no such  *)
(* file.  provider[symbol] is what json.loads(url.read()) yields for the   *)
(* symbol during one call.                                                 *)

SampleSeries ==
    { <<Entry(2, 4), Entry(1, 0), Entry(0, 1)>>,
      <<Entry(3, 2)>> }

Responses == {ErrorPayload} \cup {SeriesPayload(ts) : ts \in SampleSeries}

CacheContents == {NoFile} \cup Responses

ShortDeltas == {2, 3}

SeqsUpTo(S, n) == UNION {[1..k -> S] : k \in 0..n}

already_exists(files, symbol) == files[symbol] # NoFile

(* Variant: the file is written before the response is checked. *)
download_data_write_first(files, symbol, response) ==
    [raised |-> IF HasErrorMessage(response) THEN "Exception" ELSE "none",
     data   |-> IF HasErrorMessage(response) THEN NoFile ELSE response,
     files  |-> [files EXCEPT ![symbol] = response]]

(* download_data: the response is checked for 'Error Message' before the   *)
(* file is opened for writing.                                             *)
download_data(files, symbol, response) ==
    IF HasErrorMessage(response)
        THEN [raised |-> "Exception", data |-> NoFile, files |-> files]
        ELSE [raised |-> "none", data |-> response,
              files  |-> [files EXCEPT ![symbol] = response]]

(* read_data: json.load of the file, returned as it is. *)
read_data(files, symbol) ==
    [raised |-> "none", data |-> files[symbol], files |-> files]

(* Variant: the branch as the docstring words it, "if local copy does not *)
(* exist or update = False".                                               *)
ShouldDownloadDocstring(exists, update) ==
    IF exists THEN (IF update THEN FALSE ELSE TRUE) ELSE TRUE

(* The branch get_historical_data takes for one symbol. *)
ShouldDownload(exists, update) ==
    IF exists THEN (IF update THEN TRUE ELSE FALSE) ELSE TRUE

(* The loop of get_historical_data from position i on.  st holds the files,*)
(* datas, the exception that ended the loop, and a log of each iteration:  *)
(* what already_exists answered and whether download_data was called.      *)
RECURSIVE GetLoop(_, _, _, _, _)
GetLoop(symbols, update, provider, i, st) ==
    IF i > Len(symbols) \/ st.raised # "none" THEN st
    ELSE
        LET symbol == symbols[i]
            exists == already_exists(st.files, symbol)
            dl     == ShouldDownload(exists, update)
            r      == IF dl THEN download_data(st.files, symbol, provider[symbol])
                            ELSE read_data(st.files, symbol)
            entry  == [symbol |-> symbol, existed |-> exists, downloaded |-> dl]
        IN  GetLoop(symbols, update, provider, i + 1,
                    [files  |-> r.files,
                     datas  |-> IF r.raised = "none" THEN Append(st.datas, r.data)
                                                     ELSE st.datas,
                     log    |-> Append(st.log, entry),
                     raised |-> r.raised])

get_historical_data(files, symbols, update, provider) ==
    GetLoop(symbols, update, provider, 1,
            [files |-> files, datas |-> <<>>, log |-> <<>>, raised |-> "none"])

----------------------------------------------------------------------------
(* The record of the last call: its arguments, the exception it ended with *)
(* ("none" when it returned) and what it returned or did on the way.       *)

NoCall ==
    [op |-> "none", symbols |-> <<>>, update |-> FALSE, time_deltas |-> <<>>,
     raised |-> "none", log |-> <<>>, datas |-> <<>>, unpack_attempted |-> FALSE,
     values_df |-> <<>>, warned |-> <<>>, pairs |-> <<>>, histograms |-> <<>>]

(* A call of get_historical_data(symbols, update). *)
GetHistoricalData(symbols, update, provider) ==
    LET g == get_historical_data(cache, symbols, update, provider)
    IN  /\ cache' = g.files
        /\ ret' = [NoCall EXCEPT !.op = "get_historical_data",
                                 !.symbols = symbols, !.update = update,
                                 !.raised = g.raised, !.log = g.log,
                                 !.datas = IF g.raised = "none" THEN g.datas ELSE <<>>]

(* np.max(values_df.index) - np.min(values_df.index) < time_delta *)
SpanTooShort(values_df, time_delta) ==
    MaxDayOf(values_df) - MinDay(values_df) < time_delta

(* Variant: the orchestrator stops at the first offset the series does not *)
(* cover.                                                                  *)
RECURSIVE CoveredPrefix(_, _)
CoveredPrefix(values_df, time_deltas) ==
    IF time_deltas = <<>> THEN <<>>
    ELSE IF MaxDayOf(values_df) - MinDay(values_df) < Head(time_deltas) THEN <<>>
    ELSE <<Head(time_deltas)>> \o CoveredPrefix(values_df, Tail(time_deltas))

HistogramsOfFailFast(values_df, time_deltas) ==
    LET done  == CoveredPrefix(values_df, time_deltas)
        pairs == [i \in 1..Len(done) |-> get_pairwise_values(values_df, done[i])]
    IN  [warned     |-> IF Len(done) < Len(time_deltas)
                           THEN <<time_deltas[Len(done) + 1]>> ELSE <<>>,
         pairs      |-> pairs,
         histograms |-> [i \in 1..Len(done) |->
                            calculate_risk_histogram(pairs[i], done[i])]]

(* The two loops of the orchestrator over time_deltas, after the series    *)
(* has been unpacked.                                                      *)
HistogramsOf(values_df, time_deltas) ==
    LET Short(td) == SpanTooShort(values_df, td)
        pairs     == [i \in 1..Len(time_deltas) |->
                         get_pairwise_values(values_df, time_deltas[i])]
    IN  [warned     |-> SelectSeq(time_deltas, Short),
         pairs      |-> pairs,
         histograms |-> [i \in 1..Len(time_deltas) |->
                            calculate_risk_histogram(pairs[i], time_deltas[i])]]

(* A call of calculate_risk_histogram_as_function_of_time(symbol,          *)
(* time_deltas).                                                           *)
CalculateRiskHistogramAsFunctionOfTime(symbol, time_deltas, provider) ==
    \E g \in {get_historical_data(cache, <<symbol>>, FALSE, provider)} :
    LET call == [NoCall EXCEPT !.op = "calculate", !.symbols = <<symbol>>,
                               !.time_deltas = time_deltas, !.log = g.log]
    IN  /\ cache' = g.files
        /\ IF g.raised # "none"
              THEN ret' = [call EXCEPT !.raised = g.raised]
              ELSE LET data == g.datas[1]
                   IN  IF UnpackRaises(data) # "none"
                          THEN ret' = [call EXCEPT !.datas = g.datas,
                                                   !.unpack_attempted = TRUE,
                                                   !.raised = UnpackRaises(data)]
                          ELSE \E values_df \in {unpack_to_daily_df(data)} :
                               \E h \in {HistogramsOf(values_df, time_deltas)} :
                                   ret' = [call EXCEPT !.datas = g.datas,
                                                       !.unpack_attempted = TRUE,
                                                       !.values_df = values_df,
                                                       !.warned = h.warned,
                                                       !.pairs = h.pairs,
                                                       !.histograms = h.histograms]

----------------------------------------------------------------------------
(* The program: any files may lie in the data directory at the start, and  *)
(* the two entry points are called in any order.                           *)

Init ==
    /\ cache \in [Symbols -> CacheContents]
    /\ ret = NoCall

CallGet ==
    \E symbols \in SeqsUpTo(Symbols, MaxSymbols), update \in BOOLEAN,
       provider \in [Symbols -> Responses] :
        GetHistoricalData(symbols, update, provider)

CallCalculate ==
    \E symbol \in Symbols, time_deltas \in SeqsUpTo(ShortDeltas, MaxDeltas),
       response \in Responses :
        CalculateRiskHistogramAsFunctionOfTime(symbol, time_deltas,
                                               [s \in Symbols |-> response])

Next == CallGet \/ CallCalculate

Spec == Init /\ [][Next]_vars

(* The pipeline on its own: symbol "A" has a local copy holding any raw    *)
(* series within the bounds, and the orchestrator is called once with one  *)
(* offset.                                                                 *)

InitPipeline ==
    /\ \E ts \in RawSeries :
          cache = [s \in Symbols |-> IF s = "A" THEN SeriesPayload(ts) ELSE NoFile]
    /\ ret = NoCall

CallPipeline ==
    /\ ret.op = "none"
    /\ \E time_delta \in Deltas :
          CalculateRiskHistogramAsFunctionOfTime("A", <<time_delta>>,
                                                 [s \in Symbols |-> ErrorPayload])

NextPipeline == CallPipeline

SpecPipeline == InitPipeline /\ [][NextPipeline]_vars

----------------------------------------------------------------------------
(* Shorthands for the claims *)

Calculated == ret.op = "calculate" /\ ret.raised = "none"

(* The raw entries of the payload the last call unpacked. *)
RawEntries == {ret.datas[1].ts[i] : i \in 1..Len(ret.datas[1].ts)}

ValidEntries == {e \in RawEntries : e.close > 0}

Max0(x) == IF x < 0 THEN 0 ELSE x

(* A frame of consecutive calendar days in increasing order. *)
IsDailyFrame(frame) ==
    \A i \in 1..(Len(frame) - 1) : frame[i + 1].day = frame[i].day + 1

(* The day of values_df whose value get_pairwise_values pairs with day t:  *)
(* the same shift, resampling and merge, applied to a frame whose value    *)
(* column holds each row's own day.                                        *)
MatchedDay(values_df, time_delta, t) ==
    LET own == [i \in 1..Len(values_df) |-> Row(values_df[i].day, values_df[i].day)]
    IN  ValueAt(ResampleNearest(ShiftIndex(own, time_delta)), t)

----------------------------------------------------------------------------
(* C1: for a normalized series of N consecutive days and an offset of k    *)
(* whole days, get_pairwise_values returns exactly max(0, N - k) pairs,    *)
(* the i-th holding the values of the i-th day and of the day k days       *)
(* later, in increasing order of day.                                      *)
C1_PairsExact ==
    Calculated =>
        \A n \in 1..Len(ret.time_deltas) :
            LET v == ret.values_df
                k == ret.time_deltas[n]
                p == ret.pairs[n]
            IN  /\ IsDailyFrame(v)
                /\ Len(p) = Max0(Len(v) - k)
                /\ \A i \in 1..Len(p) :
                      /\ p[i].day = v[i].day
                      /\ p[i].value_original = v[i].value
                      /\ p[i].value_after_time_delta = v[i + k].value

(* A series of N >= 3 days with offset N - 1: the one pair (first, last). *)
C1_Witness ==
    /\ Calculated
    /\ Len(ret.values_df) >= 3
    /\ ret.time_deltas = <<Len(ret.values_df) - 1>>
    /\ Len(ret.pairs[1]) = 1
    /\ ret.pairs[1][1].value_original = ret.values_df[1].value
    /\ ret.pairs[1][1].value_after_time_delta = ret.values_df[Len(ret.values_df)].value
    /\ ret.pairs[1][1].value_original # ret.pairs[1][1].value_after_time_delta

(* C2: the day whose value is the second value of a pair for day t is      *)
(* within 10 days of t + delta, no returned row has a missing value, and a *)
(* day t with no day of the series within 10 days of t + delta is absent.  *)
C2_PairSound ==
    Calculated =>
        \A n \in 1..Len(ret.time_deltas) :
            LET v == ret.values_df
                k == ret.time_deltas[n]
                p == ret.pairs[n]
            IN  /\ \A i \in 1..Len(p) :
                      LET m == MatchedDay(v, k, p[i].day)
                      IN  /\ m \in DaysOf(v)
                          /\ Abs((p[i].day + k) - m) <= 10
                          /\ p[i].value_after_time_delta = ValueAt(v, m)
                          /\ p[i].value_after_time_delta # NaN
                /\ \A t \in DaysOf(v) :
                      (\A s \in DaysOf(v) : Abs((t + k) - s) > 10) => t \notin DaysOf(p)

(* An offset beyond the window: every day t of a series of several days   *)
(* has no day of the series within 10 days of t + delta, and no row is     *)
(* returned.                                                               *)
C2_Witness ==
    /\ Calculated
    /\ Len(ret.values_df) >= 2
    /\ \A t \in DaysOf(ret.values_df) : \A s \in DaysOf(ret.values_df) :
          Abs((t + ret.time_deltas[1]) - s) > 10
    /\ ret.pairs[1] = <<>>

(* C4: the output of unpack_to_daily_df has one row per calendar day from  *)
(* the earliest to the latest positive-price day of the raw series, in     *)
(* strictly increasing order, whatever the input order and gaps.           *)
C4_Dense ==
    Calculated =>
        LET v     == ret.values_df
            valid == {e.day : e \in ValidEntries}
        IN  /\ Len(v) >= 1
            /\ \A d \in valid : v[1].day <= d /\ d <= v[Len(v)].day
            /\ v[1].day \in valid
            /\ v[Len(v)].day \in valid
            /\ \A i \in 1..(Len(v) - 1) : v[i + 1].day = v[i].day + 1

(* Raw entries given oldest first, with a gap and a zero entry. *)
C4_Witness ==
    /\ Calculated
    /\ Len(ret.datas[1].ts) = 3
    /\ ret.datas[1].ts[1].day < ret.datas[1].ts[2].day
    /\ ret.datas[1].ts[1].close > 0
    /\ ret.datas[1].ts[2].close > 0
    /\ ret.datas[1].ts[3].close = 0
    /\ Len(ret.values_df) > Cardinality(ValidEntries)

(* C5: every price of the output of unpack_to_daily_df is > 0 and is the   *)
(* price of a positive-price raw entry nearest to that day.                *)
C5_NearestValid ==
    Calculated =>
        \A i \in 1..Len(ret.values_df) :
            LET row == ret.values_df[i]
            IN  /\ row.value > 0
                /\ \E e \in ValidEntries :
                      /\ e.close = row.value
                      /\ \A f \in ValidEntries :
                            Abs(e.day - row.day) <= Abs(f.day - row.day)

(* A zero entry between two valid entries of different prices: its day is  *)
(* in the output, filled with a neighbour's price.                         *)
C5_Witness ==
    /\ Calculated
    /\ \E z \in RawEntries, a, b \in ValidEntries :
          /\ z.close = 0
          /\ a.day < z.day /\ z.day < b.day
          /\ a.close # b.close
          /\ z.day - a.day # b.day - z.day
          /\ z.day \in DaysOf(ret.values_df)

(* C8 as stated: on a series whose price is multiplied by 2^g every day    *)
(* (r = 2^g - 1), every growth sample at an offset > 0 is                  *)
(* (1 + r)^365.25 - 1, that is 2^(num / den) with num / den = 365.25 * g.  *)
ConstantGrowth(v, g) ==
    \A i \in 1..(Len(v) - 1) : Log2(v[i + 1].value) - Log2(v[i].value) = g

C8_Original ==
    Calculated =>
        \A g \in 0..2 :
            ConstantGrowth(ret.values_df, g) /\ Len(ret.values_df) >= 2 =>
                \A n \in 1..Len(ret.time_deltas) :
                    ret.time_deltas[n] > 0 =>
                        \A i \in 1..Len(ret.histograms[n]) :
                            LET x == ret.histograms[n][i]
                            IN  x.kind = "finite" /\ 4 * x.num = 1461 * g * x.den

(* C8 amended: the sample is (1 + r)^365 - 1 at every whole-day offset > 0 *)
(* (the year of the annualisation has 365 days), one sample per pair.      *)
C8_Annual365 ==
    Calculated =>
        \A g \in 0..2 :
            ConstantGrowth(ret.values_df, g) /\ Len(ret.values_df) >= 2 =>
                \A n \in 1..Len(ret.time_deltas) :
                    ret.time_deltas[n] > 0 =>
                        /\ Len(ret.histograms[n]) = Len(ret.pairs[n])
                        /\ \A i \in 1..Len(ret.histograms[n]) :
                              LET x == ret.histograms[n][i]
                              IN  x.kind = "finite" /\ x.num = DaysPerYear * g * x.den

(* Three days of prices 1, 2, 4 and an offset of two days: one sample. *)
C8_Witness ==
    /\ Calculated
    /\ Len(ret.values_df) = 3
    /\ ConstantGrowth(ret.values_df, 1)
    /\ ret.time_deltas = <<2>>
    /\ Len(ret.histograms[1]) = 1
    /\ ret.histograms[1][1].kind = "finite"

----------------------------------------------------------------------------
(* Claims on the whole program (specification Spec) *)

(* C3: once a series with a positive price is acquired, the orchestrator   *)
(* returns one histogram per requested offset, the n-th for the n-th       *)
(* offset, and does not raise; an offset longer than the span of the       *)
(* series is warned about and gets the empty histogram, the others go on.  *)
C3_OnePerOffset ==
    (ret.op = "calculate" /\ Len(ret.datas) = 1 /\ HasTimeSeries(ret.datas[1])
     /\ ValidEntries # {}) =>
        LET valid == {e.day : e \in ValidEntries}
            lo    == CHOOSE d \in valid : \A e \in valid : d <= e
            hi    == CHOOSE d \in valid : \A e \in valid : e <= d
            Short(k) == hi - lo < k
        IN  /\ ret.raised = "none"
            /\ Len(ret.histograms) = Len(ret.time_deltas)
            /\ ret.warned = SelectSeq(ret.time_deltas, Short)
            /\ \A n \in 1..Len(ret.time_deltas) :
                  LET k == ret.time_deltas[n]
                  IN  /\ Len(ret.histograms[n]) = Max0(hi - lo + 1 - k)
                      /\ \A i \in 1..Len(ret.histograms[n]) :
                            ret.histograms[n][i].den = k
                      /\ Short(k) => ret.histograms[n] = <<>>

(* A series of three days (span 2): a too long offset first, then one     *)
(* equal to the span, which is not warned about and gives one sample.      *)
C3_Witness ==
    /\ ret.op = "calculate"
    /\ ret.raised = "none"
    /\ ret.time_deltas = <<3, 2>>
    /\ Len(ret.values_df) = 3
    /\ ret.warned = <<3>>
    /\ ret.histograms[1] = <<>>
    /\ Len(ret.histograms[2]) = 1

C9_GetStep ==
    LET syms == ret'.symbols
        lg   == ret'.log
        Before(i) == \/ cache[syms[i]] # NoFile
                     \/ \E j \in 1..(i - 1) : syms[j] = syms[i]
    IN  /\ Len(lg) <= Len(syms)
        /\ \A i \in 1..Len(lg) :
              /\ lg[i].symbol = syms[i]
              /\ lg[i].existed <=> Before(i)
              /\ lg[i].downloaded <=> (ret'.update \/ ~Before(i))
        /\ ret'.raised = "none" =>
              /\ Len(lg) = Len(syms)
              /\ Len(ret'.datas) = Len(syms)
              /\ \A i \in 1..Len(syms) :
                    /\ ret'.datas[i] # NoFile
                    /\ ret'.datas[i] = cache'[syms[i]]
                    /\ ~lg[i].downloaded /\ cache[syms[i]] # NoFile
                          => ret'.datas[i] = cache[syms[i]]
        /\ (~ret'.update /\ \A i \in 1..Len(syms) : cache[syms[i]] # NoFile) =>
              /\ ret'.raised = "none"
              /\ cache' = cache
              /\ \A i \in 1..Len(lg) : ~lg[i].downloaded

(* The orchestrator does one lookup, with update false: it downloads only  *)
(* a symbol that has no local copy.                                        *)
C9_CalculateStep ==
    /\ Len(ret'.log) = 1
    /\ ret'.log[1].symbol = ret'.symbols[1]
    /\ ret'.log[1].downloaded <=> cache[ret'.symbols[1]] = NoFile
    /\ cache[ret'.symbols[1]] # NoFile => cache' = cache

NoErrorCached(files) == \A s \in Symbols : ~HasErrorMessage(files[s])

(* One call: a local copy only changes by a download that succeeded and    *)
(* then holds no error payload; the symbol whose download raised keeps its *)
(* local copy.                                                             *)
C10_Step ==
    LET lg == ret'.log
    IN  /\ \A s \in Symbols :
              cache'[s] # cache[s] =>
                  /\ ~HasErrorMessage(cache'[s])
                  /\ cache'[s] # NoFile
                  /\ \E i \in 1..Len(lg) :
                        /\ lg[i].symbol = s
                        /\ lg[i].downloaded
                        /\ i < Len(lg) \/ ret'.raised = "none"
        /\ ret'.raised = "Exception" =>
              /\ lg[Len(lg)].downloaded
              /\ cache'[lg[Len(lg)].symbol] = cache[lg[Len(lg)].symbol]
        /\ NoErrorCached(cache) => NoErrorCached(cache')

(* C10: a download answered by an error payload raises before anything is  *)
(* written: the local copy of its symbol and those of the other symbols    *)
(* are as that download found them; hence a cache without error payloads   *)
(* stays without them through every call.                                  *)
C10_FailedDownloadWritesNothing == [][C10_Step]_vars

(* A first download succeeded, the second, of a symbol holding older data, *)
(* was answered by an error payload: the older data is still there.        *)
C10_Witness ==
    /\ ret.op = "get_historical_data"
    /\ ret.raised = "Exception"
    /\ Len(ret.log) = 2
    /\ ret.log[1].downloaded
    /\ ret.log[2].downloaded /\ ret.log[2].existed
    /\ HasTimeSeries(cache[ret.log[2].symbol])
    /\ NoErrorCached(cache)

====
